---- MODULE Spec2Model ----
(***************************************************************************)
(* A model of the mDNS connection engine (src/src/conn/mod.rs) and of the  *)
(* primitive wire codec (src/src/message/packer.rs).                       *)
(*                                                                         *)
(* Spec       : one DNSConn, its background task (DNSConn::start and run)  *)
(*              and a bounded number of caller tasks, each making one      *)
(*              close() or one query() call.  Every shared-memory access   *)
(*              or await of the code is one atomic step, so the steps of   *)
(*              different tasks interleave as they do on a multi-threaded  *)
(*              tokio runtime.                                             *)
(* FairSpec   : Spec with one caller that queries and the others closing,  *)
(*              and with the fairness tokio's scheduler gives to a task    *)
(*              that is ready to run.                                      *)
(* PackerSpec : the pure functions of packer.rs applied to inputs drawn    *)
(*              from bounded sets.                                         *)
(***************************************************************************)
EXTENDS Integers, Sequences, FiniteSets, TLC

(***************************************************************************)
(* Bounds of the model.                                                    *)
(***************************************************************************)
\* number of caller tasks; each makes one call, close() or query()
MaxCalls == 2
\* number of datagrams the socket hands to the background loop
MaxDatagrams == 1
\* largest number of questions a datagram holds beyond those run() reads
MaxUnread == 1
\* number of times one query() re-sends its question on a timer tick
MaxTicks == 1

(***************************************************************************)
(* Program constants of conn/mod.rs.                                       *)
(***************************************************************************)
MAX_MESSAGE_RECORDS == 3
RESPONSE_TTL == 120
\* mpsc::channel(1) of close_server
CloseChanCap == 1
\* mpsc::channel(1) of query_result_chan
ResultChanCap == 1

DEFAULT_DEST_ADDR == [ip |-> "224.0.0.251", port |-> 5353]

Calls == 1..MaxCalls
\* the names callers ask for, and Config.local_names
QueryNames == {"host.local", "other.local"}
ConfigLocalNames == <<"host.local">>
\* the names a decoded question or resource header can carry
WireNames == {"host.local.", "other.local."}
WireTypes == {"A", "AAAA", "TXT"}
\* source addresses of inbound datagrams (the socket is IPv4)
Addrs == {[ip |-> "203.0.113.5", port |-> 5353]}
NoAddr == [ip |-> "", port |-> 0]

VARIABLES
    \* ---- DNSConn and what its tasks share
    is_server_closed,   \* the AtomicBool
    close_server,       \* number of () buffered in the close channel
    closed_rx,          \* "open" | "dropped": the receiver start() owns
    queries,            \* the Vec<Query> behind the Mutex
    queries_lock,       \* "free" | "run": whether run() holds the Mutex
    local_names,        \* Vec<String>, each with the "." suffix
    query_rx,           \* per call: the result channel made by query()
    close_query_signal, \* per call: the cancellation signal was sent
    \* ---- the background task
    lpc,                \* its position in start()/run()
    loop_result,        \* "running" | "Ok" | "Err": what start() returned
    src,                \* source address of the datagram being processed
    p,                  \* the Parser: records left in each section
    qi,                 \* iteration index of run()'s question loop
    ai,                 \* iteration index of run()'s answer loop
    a,                  \* the resource header answer_header() returned
    j,                  \* index of run()'s registry scan
    \* ---- the caller tasks
    call,               \* per call: op, pc, name_with_suffix, result, value
    \* ---- the network and the history of the run
    received,           \* datagrams received so far
    questions_sent,     \* per call: question datagrams handed to send_to
    answers_sent,       \* answers handed to send_to for the current datagram
    dg,                 \* the question section of the current datagram
    hist,               \* history of the calls and of the deliveries
    \* ---- the codec
    pk,                 \* a packer.rs function, its input and its result
    \* ---- construction
    setup               \* server(): its position, locals and result

sharedVars == <<is_server_closed, close_server, closed_rx, queries,
                queries_lock, local_names, query_rx, close_query_signal>>
loopVars == <<lpc, loop_result, src, p, qi, ai, a, j>>
netVars == <<received, questions_sent, answers_sent, dg>>
connVars == <<sharedVars, loopVars, call, netVars, hist>>
vars == <<connVars, pk, setup>>

NoHeader == [name |-> "", typ |-> ""]
NoCall == [op |-> "none", pc |-> "idle", name_with_suffix |-> "",
           result |-> "none", value |-> <<>>]
NoParser == [qLeft |-> 0]
\* dg: how many questions of the current datagram run() has read, how many
\* of them name a local name, and the names of those it left unread; how
\* many registry entries run() has removed for it; and, once run() is about
\* to return, why ("done", "failed", "capped") and the answer records it left
\* unread
NoDatagram == [read |-> 0, local |-> 0, unread |-> <<>>, removed |-> 0,
               outcome |-> "none", skipped |-> <<>>]
NoChannel == [buf |-> <<>>, rx |-> "none"]

\* DNSConn::server, lines 98-102: every configured name with "." appended
WithSuffix(names) == [i \in 1..Len(names) |-> names[i] \o "."]

\* DNSConn::server, lines 106-139: the connection as server() returns it,
\* with the background task spawned
ConnInit ==
    /\ is_server_closed = FALSE
    /\ close_server = 0
    /\ closed_rx = "open"
    /\ queries = <<>>
    /\ queries_lock = "free"
    /\ local_names = WithSuffix(ConfigLocalNames)
    /\ query_rx = [c \in Calls |-> NoChannel]
    /\ close_query_signal = [c \in Calls |-> FALSE]
    /\ lpc = "select"
    /\ loop_result = "running"
    /\ src = NoAddr
    /\ p = NoParser
    /\ qi = 0
    /\ ai = 0
    /\ a = NoHeader
    /\ j = 0
    /\ call = [c \in Calls |-> NoCall]
    /\ received = 0
    /\ questions_sent = [c \in Calls |-> 0]
    /\ answers_sent = <<>>
    /\ dg = NoDatagram
    /\ hist = [close_ok |-> FALSE,
               first_close |-> 0,
               after_close_ok |-> [c \in Calls |-> FALSE],
               cancelled |-> [c \in Calls |-> FALSE],
               delivered |-> [c \in Calls |-> <<>>],
               before_scan |-> <<>>]

(***************************************************************************)
(* Caller tasks.                                                           *)
(***************************************************************************)
Returned(c, res, val) ==
    [call[c] EXCEPT !.pc = "done", !.result = res, !.value = val]

\* history: whether some close() had returned Ok when call c began
Began(c) ==
    [hist EXCEPT !.after_close_ok[c] = hist.close_ok]

\* close(), lines 143-149: the load of is_server_closed.  A call begins with
\* this load.
CloseLoad(c) ==
    /\ call[c].pc = "idle"
    /\ hist' = [Began(c) EXCEPT !.first_close =
                    IF hist.first_close = 0 THEN c ELSE hist.first_close]
    /\ IF is_server_closed
       THEN call' = [call EXCEPT ![c] =
                        [NoCall EXCEPT !.op = "close", !.pc = "done",
                                       !.result = "ErrConnectionClosed"]]
       ELSE call' = [call EXCEPT ![c] =
                        [NoCall EXCEPT !.op = "close", !.pc = "close_send"]]
    /\ UNCHANGED <<sharedVars, loopVars, netVars>>

\* close(), lines 152-158: close_server.send(()).await.  The send fails once
\* the receiver is dropped, waits while the channel is full, and otherwise
\* buffers the message and returns Ok.
CloseSend(c) ==
    /\ call[c].pc = "close_send"
    /\ \/ /\ closed_rx = "dropped"
          /\ call' = [call EXCEPT ![c] = Returned(c, "ErrConnectionClosed", <<>>)]
          /\ UNCHANGED <<close_server, hist>>
       \/ /\ closed_rx = "open"
          /\ close_server < CloseChanCap
          /\ close_server' = close_server + 1
          /\ call' = [call EXCEPT ![c] = Returned(c, "Ok", <<>>)]
          /\ hist' = [hist EXCEPT !.close_ok = TRUE]
    /\ UNCHANGED <<is_server_closed, closed_rx, queries, queries_lock,
                   local_names, query_rx, close_query_signal, loopVars,
                   netVars>>

\* query(), lines 168-176: the load of is_server_closed, the suffixed name
\* and the result channel.
QueryLoad(c, name) ==
    /\ call[c].pc = "idle"
    /\ hist' = Began(c)
    /\ IF is_server_closed
       THEN /\ call' = [call EXCEPT ![c] =
                          [NoCall EXCEPT !.op = "query", !.pc = "done",
                                         !.result = "ErrConnectionClosed"]]
            /\ UNCHANGED query_rx
       ELSE /\ call' = [call EXCEPT ![c] =
                          [NoCall EXCEPT !.op = "query", !.pc = "register",
                                         !.name_with_suffix = name \o "."]]
            /\ query_rx' = [query_rx EXCEPT ![c] = [buf |-> <<>>, rx |-> "open"]]
    /\ UNCHANGED <<is_server_closed, close_server, closed_rx, queries,
                   queries_lock, local_names, close_query_signal, loopVars,
                   netVars>>

\* query(), lines 177-183: lock, push, unlock.  No await separates the three.
QueryRegister(c) ==
    /\ call[c].pc = "register"
    /\ queries_lock = "free"
    /\ queries' = Append(queries,
                         [name_with_suffix |-> call[c].name_with_suffix,
                          query_result_chan |-> c])
    /\ call' = [call EXCEPT ![c].pc = "send"]
    /\ UNCHANGED <<is_server_closed, close_server, closed_rx, queries_lock,
                   local_names, query_rx, close_query_signal, loopVars,
                   netVars, hist>>

\* send_question(), lines 210-243: one question datagram handed to send_to.
\* A send error is logged and changes nothing else.
SendQuestion(c) ==
    /\ questions_sent' = [questions_sent EXCEPT ![c] = questions_sent[c] + 1]
    /\ UNCHANGED <<received, answers_sent, dg>>

\* query(), line 186: the first send.
QuerySend(c) ==
    /\ call[c].pc = "send"
    /\ SendQuestion(c)
    /\ call' = [call EXCEPT ![c].pc = "select"]
    /\ UNCHANGED <<sharedVars, loopVars, hist>>

\* a sleep branch that stops re-sending once the connection is closed
QueryTickUnlessClosed(c) ==
    /\ call[c].pc = "select"
    /\ ~is_server_closed
    /\ questions_sent[c] < 1 + MaxTicks
    /\ SendQuestion(c)
    /\ UNCHANGED <<sharedVars, loopVars, call, hist>>

\* query(), lines 190-193: the sleep branch of the select.
QueryTick(c) ==
    /\ call[c].pc = "select"
    /\ questions_sent[c] < 1 + MaxTicks
    /\ SendQuestion(c)
    /\ UNCHANGED <<sharedVars, loopVars, call, hist>>

\* a close_query_signal branch that logs the signal and keeps the loop going,
\* re-sending the question
QueryCancelledKeepsLooping(c) ==
    /\ call[c].pc = "select"
    /\ close_query_signal[c]
    /\ SendQuestion(c)
    /\ close_query_signal' = [close_query_signal EXCEPT ![c] = FALSE]
    /\ hist' = [hist EXCEPT !.cancelled[c] = TRUE]
    /\ UNCHANGED <<is_server_closed, close_server, closed_rx, queries,
                   queries_lock, local_names, query_rx, loopVars, call>>

\* query(), lines 195-198: the close_query_signal branch.  The function
\* returns, which drops query_rx and close_query_signal with what they
\* buffer; the Vec is not touched.
QueryCancelled(c) ==
    /\ call[c].pc = "select"
    /\ close_query_signal[c]
    /\ call' = [call EXCEPT ![c] = Returned(c, "ErrConnectionClosed", <<>>)]
    /\ query_rx' = [query_rx EXCEPT ![c] = [buf |-> <<>>, rx |-> "dropped"]]
    /\ close_query_signal' = [close_query_signal EXCEPT ![c] = FALSE]
    /\ hist' = [hist EXCEPT !.cancelled[c] = TRUE]
    /\ UNCHANGED <<is_server_closed, close_server, closed_rx, queries,
                   queries_lock, local_names, loopVars, netVars>>

\* query(), lines 200-205: the query_rx branch, with Some(res).  (recv()
\* gives None only when the sender is dropped with nothing buffered; run()
\* drops the sender right after a send that can only fail once this call
\* has returned, so that branch is never taken.)
QueryResult(c) ==
    /\ call[c].pc = "select"
    /\ query_rx[c].buf # <<>>
    /\ call' = [call EXCEPT ![c] = Returned(c, "Ok", Head(query_rx[c].buf))]
    /\ query_rx' = [query_rx EXCEPT ![c] = [buf |-> <<>>, rx |-> "dropped"]]
    /\ close_query_signal' = [close_query_signal EXCEPT ![c] = FALSE]
    /\ UNCHANGED <<is_server_closed, close_server, closed_rx, queries,
                   queries_lock, local_names, loopVars, netVars, hist>>

\* the holder of the cancellation sender signals an in-flight query
SignalCancel(c) ==
    /\ call[c].op = "query"
    /\ call[c].pc # "done"
    /\ ~close_query_signal[c]
    /\ close_query_signal' = [close_query_signal EXCEPT ![c] = TRUE]
    /\ UNCHANGED <<is_server_closed, close_server, closed_rx, queries,
                   queries_lock, local_names, query_rx, loopVars, call,
                   netVars, hist>>

(***************************************************************************)
(* The Parser (crate::message::parser).  A datagram is read lazily: the    *)
(* content of a record, and whether a section has a record left, are       *)
(* chosen when the parser is asked.  p.qLeft is the number of questions    *)
(* left in the datagram once that is settled (by a section-done of         *)
(* question(), or when run() stops reading questions), and Unknown before. *)
(***************************************************************************)
Unknown == 0 - 1
WireHeaders == [name : WireNames, typ : WireTypes]

\* Parser::start: a length error on a buffer shorter than a header, else the
\* section counters are set from the header's counts.
ParserStart ==
    {[kind |-> "Err"], [kind |-> "Ok", p |-> [qLeft |-> Unknown]]}

\* Parser::question: section done when the counter is zero; else the next
\* question, or a hard parse failure.
ParserQuestion(ps) ==
    {[kind |-> "SectionDone", p |-> [ps EXCEPT !.qLeft = 0]],
     [kind |-> "Err"]} \cup
    {[kind |-> "Ok", name |-> n, p |-> ps] : n \in WireNames}

\* Parser::answer_header: as question(), on the answer section.  Called
\* while questions are left its result is undefined, which is any of the
\* same outcomes.
ParserAnswerHeader(ps) ==
    {[kind |-> "SectionDone"], [kind |-> "Err"]} \cup
    {[kind |-> "Ok", header |-> h, p |-> [ps EXCEPT !.qLeft = 0]] :
        h \in WireHeaders}

(***************************************************************************)
(* The background task: DNSConn::start and run.                            *)
(***************************************************************************)
\* start(), line 260: closed_rx.recv() completes, taking the message out of
\* the channel (which frees its one slot).
LoopRecvClose ==
    /\ lpc = "select"
    /\ close_server > 0
    /\ close_server' = close_server - 1
    /\ lpc' = "store"
    /\ UNCHANGED <<is_server_closed, closed_rx, queries, queries_lock,
                   local_names, query_rx, close_query_signal, loop_result,
                   src, p, qi, ai, a, j, call, netVars, hist>>

\* start(), line 262: close_server.store(true, SeqCst).
LoopStore ==
    /\ lpc = "store"
    /\ is_server_closed' = TRUE
    /\ lpc' = "return"
    /\ UNCHANGED <<close_server, closed_rx, queries, queries_lock,
                   local_names, query_rx, close_query_signal, loop_result,
                   src, p, qi, ai, a, j, call, netVars, hist>>

\* a close branch that stores the flag and goes round the loop again
LoopReturnKeepsRunning ==
    /\ lpc = "return"
    /\ lpc' = "select"
    /\ UNCHANGED <<is_server_closed, close_server, closed_rx, queries,
                   queries_lock, local_names, query_rx, close_query_signal,
                   loop_result, src, p, qi, ai, a, j, call, netVars, hist>>

\* start(), line 264: return Ok(()), which drops closed_rx.
LoopReturn ==
    /\ lpc = "return"
    /\ closed_rx' = "dropped"
    /\ loop_result' = "Ok"
    /\ lpc' = "ended"
    /\ UNCHANGED <<is_server_closed, close_server, queries, queries_lock,
                   local_names, query_rx, close_query_signal, src, p, qi, ai,
                   a, j, call, netVars, hist>>

\* start(), lines 275-278: recv_from fails and start() returns the error,
\* which drops closed_rx.
LoopRecvError ==
    /\ lpc = "select"
    /\ closed_rx' = "dropped"
    /\ loop_result' = "Err"
    /\ lpc' = "ended"
    /\ UNCHANGED <<is_server_closed, close_server, queries, queries_lock,
                   local_names, query_rx, close_query_signal, src, p, qi, ai,
                   a, j, call, netVars, hist>>

\* start(), lines 267-291: recv_from gives a datagram and Parser::start
\* reads its header; on a parse failure the loop continues.
LoopRecvDatagram ==
    /\ lpc = "select"
    /\ received < MaxDatagrams
    /\ received' = received + 1
    /\ \E addr \in Addrs, r \in ParserStart :
          IF r.kind = "Err"
          THEN UNCHANGED <<src, p, lpc>>
          ELSE /\ src' = addr
               /\ p' = r.p
               /\ lpc' = "questions"
    /\ UNCHANGED <<sharedVars, loop_result, qi, ai, a, j, call,
                   questions_sent, answers_sent, dg, hist>>

\* run(), line 319: local_name == &q.name.data, for some local name
IsLocalName(name) ==
    \E i \in 1..Len(local_names) : local_names[i] = name

LocalMatches(name) ==
    Cardinality({i \in 1..Len(local_names) : local_names[i] = name})

\* send_answer(), lines 381-410: the message handed to send_to
AnswerMessage(name, dst, dst_addr) ==
    [response |-> TRUE, authoritative |-> TRUE, name |-> name, typ |-> "A",
     class |-> "INET", ttl |-> RESPONSE_TTL, a |-> dst, to |-> dst_addr]

\* run(), lines 318-332: one send_answer per local name equal to the
\* question's name
AnswersTo(name) ==
    [i \in 1..LocalMatches(name) |->
        AnswerMessage(name, src.ip, DEFAULT_DEST_ADDR)]

\* run() reaches a return (lines 309, 313, 341, 344) or the end of its
\* answer loop (line 365), leaving the answer records skipped unread.
RunEnds(outcome, skipped) ==
    /\ lpc' = "run_end"
    /\ dg' = [dg EXCEPT !.outcome = outcome, !.skipped = skipped]

\* run() returns to start()'s loop, which waits on the select again.  The
\* locals of run() and the bookkeeping on its datagram end here.
RunReturns ==
    /\ lpc' = "select"
    /\ p' = NoParser
    /\ qi' = 0
    /\ ai' = 0
    /\ a' = NoHeader
    /\ src' = NoAddr
    /\ answers_sent' = <<>>
    /\ dg' = NoDatagram

\* start(), line 291: run(...).await completes and the loop goes round
LoopRunEnd ==
    /\ lpc = "run_end"
    /\ RunReturns
    /\ UNCHANGED <<sharedVars, loop_result, j, call, received,
                   questions_sent, hist>>

\* the datagram's questions run() has read: one more, named name
QuestionRead(name) ==
    [dg EXCEPT !.read = @ + 1,
               !.local = @ + (IF \E i \in DOMAIN local_names : local_names[i] = name THEN 1 ELSE 0)]

\* run(), lines 304-333: one iteration of the question loop, or its end
\* after MAX_MESSAGE_RECORDS + 1 iterations.  When the loop ends with
\* questions left in the datagram, their names (which run() never reads) are
\* recorded in dg.unread.
LoopQuestion ==
    /\ lpc = "questions"
    /\ IF qi > MAX_MESSAGE_RECORDS
       THEN /\ \E n \in 0..MaxUnread : \E u \in [1..n -> WireNames] :
                  /\ dg' = [dg EXCEPT !.unread = u]
                  /\ p' = [p EXCEPT !.qLeft = n]
            /\ lpc' = "answers"
            /\ UNCHANGED <<src, qi, ai, a, answers_sent>>
       ELSE \E r \in ParserQuestion(p) :
            \/ /\ r.kind = "SectionDone"
               /\ p' = r.p
               /\ lpc' = "answers"
               /\ UNCHANGED <<src, qi, ai, a, answers_sent, dg>>
            \/ /\ r.kind = "Err"
               /\ RunEnds("failed", <<>>)
               /\ UNCHANGED <<src, p, qi, ai, a, answers_sent>>
            \/ /\ r.kind = "Ok"
               /\ p' = r.p
               /\ answers_sent' = answers_sent \o AnswersTo(r.name)
               /\ dg' = QuestionRead(r.name)
               /\ qi' = qi + 1
               /\ UNCHANGED <<src, lpc, ai, a>>
    /\ UNCHANGED <<sharedVars, loop_result, j, call, received,
                   questions_sent, hist>>

\* a type test that lets every record type through
AnyType(typ) == typ \in WireTypes

\* run(), line 348
IsAddressType(typ) == typ = "A" \/ typ = "AAAA"

\* run(), lines 335-353: one iteration of the answer loop up to the scan, or
\* the end of the loop.  For an A or AAAA record the task takes the lock
\* (which only the push of query() holds otherwise, across no await) and
\* sets the range of the scan: Rust's j runs from len - 1 down to 0, here
\* from Len down to 1.  The bookkeeping on the question section ends here.
LoopAnswer ==
    /\ lpc = "answers"
    /\ IF ai > MAX_MESSAGE_RECORDS
       THEN /\ \E n \in 0..MaxUnread : \E u \in [1..n -> WireHeaders] :
                  RunEnds("capped", u)
            /\ UNCHANGED <<src, p, qi, ai, a, answers_sent, queries_lock, j,
                           hist>>
       ELSE \E r \in ParserAnswerHeader(p) :
            \/ /\ r.kind \in {"SectionDone", "Err"}
               /\ RunEnds(IF r.kind = "Err" THEN "failed" ELSE "done", <<>>)
               /\ UNCHANGED <<src, p, qi, ai, a, answers_sent, queries_lock,
                              j, hist>>
            \/ /\ r.kind = "Ok"
               /\ p' = r.p
               /\ IF IsAddressType(r.header.typ)
                  THEN /\ queries_lock = "free"
                       /\ queries_lock' = "run"
                       /\ a' = r.header
                       /\ j' = Len(queries)
                       /\ lpc' = "scan"
                       /\ hist' = [hist EXCEPT !.before_scan = queries]
                       /\ UNCHANGED ai
                  ELSE /\ ai' = ai + 1
                       /\ UNCHANGED <<a, lpc, queries_lock, j, hist>>
               /\ answers_sent' = <<>>
               /\ dg' = [NoDatagram EXCEPT !.removed = dg.removed]
               /\ UNCHANGED <<src, qi>>
    /\ UNCHANGED <<is_server_closed, close_server, closed_rx, queries,
                   local_names, query_rx, close_query_signal, loop_result,
                   call, received, questions_sent>>

\* a comparison that finds no entry equal to the record's name
NameNeverMatches(query, header) == FALSE

\* run(), line 354
NameMatches(query, header) == query.name_with_suffix = header.name

\* a removal that leaves the Vec as it is
KeepAt(s, i) == s

\* Vec::remove, line 362
RemoveAt(s, i) == [k \in 1..(Len(s) - 1) |-> IF k < i THEN s[k] ELSE s[k + 1]]

\* run(), lines 353-365: one step of the scan, with the lock held; at its end
\* the guard is dropped and the answer loop goes on.  The send waits while
\* the result channel is full and fails once its receiver is dropped.
LoopScan ==
    /\ lpc = "scan"
    /\ IF j = 0
       THEN /\ queries_lock' = "free"
            /\ ai' = ai + 1
            /\ a' = NoHeader
            /\ lpc' = "answers"
            /\ hist' = [hist EXCEPT !.before_scan = <<>>]
            /\ UNCHANGED <<queries, query_rx, j, dg>>
       ELSE /\ IF NameMatches(queries[j], a)
               THEN LET c == queries[j].query_result_chan IN
                    /\ \/ /\ query_rx[c].rx = "dropped"
                          /\ UNCHANGED <<query_rx, hist>>
                       \/ /\ query_rx[c].rx = "open"
                          /\ Len(query_rx[c].buf) < ResultChanCap
                          /\ query_rx' = [query_rx EXCEPT ![c].buf =
                                Append(@, [answer |-> a, addr |-> src])]
                          /\ hist' = [hist EXCEPT !.delivered[c] =
                                Append(@, [answer |-> a, addr |-> src])]
                    /\ queries' = RemoveAt(queries, j)
                    /\ dg' = [dg EXCEPT !.removed = @ + 1]
               ELSE UNCHANGED <<queries, query_rx, hist, dg>>
            /\ j' = j - 1
            /\ UNCHANGED <<queries_lock, ai, a, lpc>>
    /\ UNCHANGED <<is_server_closed, close_server, closed_rx, local_names,
                   close_query_signal, loop_result, src, p, qi, call,
                   received, questions_sent, answers_sent>>

(***************************************************************************)
(* The connection engine's specification.                                  *)
(***************************************************************************)
PkIdle == [op |-> "none", in |-> <<>>, out |-> <<>>, back |-> <<>>]


\* server() has returned Ok(c): the group is joined on an interface and the
\* background task is spawned (lines 127-139)
Constructed ==
    [pc |-> "done", interfaces |-> <<"V4Joins">>, i |-> 1,
     join_error_count |-> 0, joined |-> 1, result |-> "Ok"]

Init == ConnInit /\ pk = PkIdle /\ setup = Constructed

Next ==
    \/ \E c \in Calls : CloseLoad(c) /\ UNCHANGED <<pk, setup>>
    \/ \E c \in Calls : CloseSend(c) /\ UNCHANGED <<pk, setup>>
    \/ \E c \in Calls, n \in QueryNames : QueryLoad(c, n) /\ UNCHANGED <<pk, setup>>
    \/ \E c \in Calls : QueryRegister(c) /\ UNCHANGED <<pk, setup>>
    \/ \E c \in Calls : QuerySend(c) /\ UNCHANGED <<pk, setup>>
    \/ \E c \in Calls : QueryTick(c) /\ UNCHANGED <<pk, setup>>
    \/ \E c \in Calls : QueryCancelled(c) /\ UNCHANGED <<pk, setup>>
    \/ \E c \in Calls : QueryResult(c) /\ UNCHANGED <<pk, setup>>
    \/ \E c \in Calls : SignalCancel(c) /\ UNCHANGED <<pk, setup>>
    \/ LoopRecvClose /\ UNCHANGED <<pk, setup>>
    \/ LoopStore /\ UNCHANGED <<pk, setup>>
    \/ LoopReturn /\ UNCHANGED <<pk, setup>>
    \/ LoopRecvError /\ UNCHANGED <<pk, setup>>
    \/ LoopRecvDatagram /\ UNCHANGED <<pk, setup>>
    \/ LoopQuestion /\ UNCHANGED <<pk, setup>>
    \/ LoopAnswer /\ UNCHANGED <<pk, setup>>
    \/ LoopScan /\ UNCHANGED <<pk, setup>>
    \/ LoopRunEnd /\ UNCHANGED <<pk, setup>>

Spec == Init /\ [][Next]_vars

\* A task that is ready to run is run: a step of the background task, or of
\* a caller, that waits for nothing outside the program is taken when it
\* stays enabled.  The arrival of datagrams, timer ticks, cancellation
\* signals and the calls themselves are the environment's and get no
\* fairness.
LoopStep ==
    \/ LoopRecvClose
    \/ LoopStore
    \/ LoopReturn
    \/ LoopQuestion
    \/ LoopAnswer
    \/ LoopScan
    \/ LoopRunEnd

CallerStep(c) ==
    \/ CloseSend(c)
    \/ QueryRegister(c)
    \/ QuerySend(c)
    \/ QueryResult(c)

Fairness ==
    /\ WF_vars(LoopStep /\ UNCHANGED <<pk, setup>>)
    /\ \A c \in Calls : WF_vars(CallerStep(c) /\ UNCHANGED <<pk, setup>>)

\* The callers of the fair specification: the first queries, the others
\* close.
FairQueriers == {1}
FairClosers == Calls \ FairQueriers

FairNext ==
    \/ \E c \in FairClosers : CloseLoad(c) /\ UNCHANGED <<pk, setup>>
    \/ \E c \in FairClosers : CloseSend(c) /\ UNCHANGED <<pk, setup>>
    \/ \E c \in FairQueriers, n \in QueryNames : QueryLoad(c, n) /\ UNCHANGED <<pk, setup>>
    \/ \E c \in FairQueriers : QueryRegister(c) /\ UNCHANGED <<pk, setup>>
    \/ \E c \in FairQueriers : QuerySend(c) /\ UNCHANGED <<pk, setup>>
    \/ \E c \in FairQueriers : QueryTick(c) /\ UNCHANGED <<pk, setup>>
    \/ \E c \in FairQueriers : QueryCancelled(c) /\ UNCHANGED <<pk, setup>>
    \/ \E c \in FairQueriers : QueryResult(c) /\ UNCHANGED <<pk, setup>>
    \/ \E c \in FairQueriers : SignalCancel(c) /\ UNCHANGED <<pk, setup>>
    \/ LoopRecvClose /\ UNCHANGED <<pk, setup>>
    \/ LoopStore /\ UNCHANGED <<pk, setup>>
    \/ LoopReturn /\ UNCHANGED <<pk, setup>>
    \/ LoopRecvError /\ UNCHANGED <<pk, setup>>
    \/ LoopRecvDatagram /\ UNCHANGED <<pk, setup>>
    \/ LoopQuestion /\ UNCHANGED <<pk, setup>>
    \/ LoopAnswer /\ UNCHANGED <<pk, setup>>
    \/ LoopScan /\ UNCHANGED <<pk, setup>>
    \/ LoopRunEnd /\ UNCHANGED <<pk, setup>>

FairSpec == Init /\ [][FairNext]_vars /\ Fairness

\* The engine while no caller calls close() and before any query interval
\* has elapsed: every caller is a querier, the background loop never finds a
\* close signal, and no query re-sends its question.  Fairness as in
\* FairSpec.
QueryNext ==
    \/ \E c \in Calls, n \in QueryNames :
          QueryLoad(c, n) /\ UNCHANGED <<pk, setup>>
    \/ \E c \in Calls : QueryRegister(c) /\ UNCHANGED <<pk, setup>>
    \/ \E c \in Calls : QuerySend(c) /\ UNCHANGED <<pk, setup>>
    \/ \E c \in Calls : QueryCancelled(c) /\ UNCHANGED <<pk, setup>>
    \/ \E c \in Calls : QueryResult(c) /\ UNCHANGED <<pk, setup>>
    \/ \E c \in Calls : SignalCancel(c) /\ UNCHANGED <<pk, setup>>
    \/ LoopRecvError /\ UNCHANGED <<pk, setup>>
    \/ LoopRecvDatagram /\ UNCHANGED <<pk, setup>>
    \/ LoopQuestion /\ UNCHANGED <<pk, setup>>
    \/ LoopAnswer /\ UNCHANGED <<pk, setup>>
    \/ LoopScan /\ UNCHANGED <<pk, setup>>
    \/ LoopRunEnd /\ UNCHANGED <<pk, setup>>

QuerySpec == Init /\ [][QueryNext]_vars /\ Fairness

(***************************************************************************)
(* Properties of the connection engine, checked under Spec                 *)
(***************************************************************************)
Registered(c) ==
    \E k \in 1..Len(queries) : queries[k].query_result_chan = c

\* C1: while the background loop runs, the first close() returns success and
\* every close() that starts after a close() has returned success fails with
\* the connection-closed error, in every interleaving.
C1_SecondCloseFails ==
    \A c \in Calls :
        (call[c].op = "close" /\ call[c].pc = "done") =>
            /\ ( /\ hist.first_close = c
                 /\ loop_result # "Err"
                 /\ \A d \in Calls \ {c} :
                       call[d].op = "close" => hist.after_close_ok[d] )
               => call[c].result = "Ok"
            /\ hist.after_close_ok[c] => call[c].result = "ErrConnectionClosed"

\* C2: a query() that starts after a close() has returned success fails with
\* the connection-closed error, registers no entry and sends no question.
C2_QueryAfterCloseFails ==
    \A c \in Calls :
        (call[c].op = "query" /\ hist.after_close_ok[c]) =>
            /\ call[c].pc = "done"
            /\ call[c].result = "ErrConnectionClosed"
            /\ ~Registered(c)
            /\ questions_sent[c] = 0

\* C3: a query() that observes its cancellation signal returns the
\* connection-closed error and sends no question datagram afterwards.
C3_CancelledQueryStops ==
    [][\A c \in Calls :
          /\ hist'.cancelled[c] =>
                /\ call'[c].pc = "done"
                /\ call'[c].result = "ErrConnectionClosed"
          /\ hist.cancelled[c] =>
                /\ questions_sent'[c] = questions_sent[c]
                /\ call'[c] = call[c]]_vars

\* a query cancelled after its first send, with a re-send still to come
C3_Witness ==
    \E c \in Calls :
        /\ hist.cancelled[c]
        /\ call[c].result = "ErrConnectionClosed"
        /\ questions_sent[c] = 1
        /\ questions_sent[c] < 1 + MaxTicks

\* C4: once a query() has returned on its cancellation signal, the entry it
\* registered is no longer in the registry.
C4_CancelledQueryUnregistered ==
    \A c \in Calls : hist.cancelled[c] => ~Registered(c)

\* the entries of a registry whose name differs from name, in order
OtherNames(registry, name) ==
    SelectSeq(registry, LAMBDA e : e.name_with_suffix # name)

LocalQuestions ==
    dg.local + Cardinality({i \in 1..Len(dg.unread) : IsLocalName(dg.unread[i])})

\* C7: for every question of a parsed datagram the server transmits exactly
\* one authoritative A answer (response and authoritative set, TTL 120, to
\* the multicast destination) when the question's name equals a local name,
\* and nothing when it equals none.
C7_OneAnswerPerLocalQuestion ==
    /\ \A i \in 1..Len(answers_sent) :
          /\ answers_sent[i].response
          /\ answers_sent[i].authoritative
          /\ answers_sent[i].typ = "A"
          /\ answers_sent[i].ttl = 120
          /\ answers_sent[i].to = [ip |-> "224.0.0.251", port |-> 5353]
          /\ IsLocalName(answers_sent[i].name)
    /\ lpc = "questions" => Len(answers_sent) = dg.local
    /\ lpc = "answers" => Len(answers_sent) = LocalQuestions

\* the background task is at the send of lines 355-361: an entry of the
\* record's name is next in the scan
RunAtSend ==
    /\ lpc = "scan"
    /\ j > 0
    /\ NameMatches(queries[j], a)

\* C11: no task holds the registry lock across a suspension point.  query()
\* locks, pushes and unlocks with no await in between (one step here); the
\* lock of run() must be free whenever run() is at an await.
C11_NoLockAcrossAwait ==
    RunAtSend => queries_lock = "free"

\* C12: run() calls answer_header() only once question() has signalled
\* section-done: whenever the answer loop is about to call it, no question
\* of the datagram is left unread.
C12_QuestionsDrainedFirst ==
    (lpc = "answers" /\ ai <= MAX_MESSAGE_RECORDS) => p.qLeft = 0

\* the query of registry entry e is still awaiting its answer
Awaiting(e) ==
    /\ call[e.query_result_chan].pc = "select"
    /\ query_rx[e.query_result_chan].buf = <<>>

\* C13: every A or AAAA record of a datagram's answer section, at whatever
\* position, is matched against the registry.  Stated where run() is about
\* to return from its answer loop: no address record it leaves unread
\* carries the name of a registered entry whose query still awaits.
C13_EveryAddressRecordMatched ==
    (lpc = "run_end" /\ dg.outcome = "capped") =>
        \A i \in 1..Len(dg.skipped) :
            IsAddressType(dg.skipped[i].typ) =>
                \A k \in 1..Len(queries) :
                    Awaiting(queries[k]) =>
                        ~NameMatches(queries[k], dg.skipped[i])

\* the entries of the registry r that carry the name of header h
SameName(r, h) ==
    SelectSeq(r, LAMBDA e : NameMatches(e, h))

\* C14: when several entries share a registered name, one matching A or AAAA
\* record is delivered to all of them and all of them are removed, the most
\* recently registered first, and the other entries keep their order.
\* Stated on the steps of a scan that began with two or more entries of the
\* record's name: a step that visits an entry finds no entry of that name
\* registered after it still in the registry; and at the scan's end each of
\* those entries has been sent the record and the source address, and the
\* registry is the one of the scan's start without them.
C14_SharedNameAllDelivered ==
    [][(lpc = "scan" /\ Len(SameName(hist.before_scan, a)) >= 2) =>
          /\ j > 0 =>
                \A k \in (j + 1)..Len(queries) : ~NameMatches(queries[k], a)
          /\ lpc' = "answers" =>
                /\ queries' = OtherNames(hist.before_scan, a.name)
                /\ \A k \in 1..Len(hist.before_scan) :
                      NameMatches(hist.before_scan[k], a) =>
                          hist'.delivered[hist.before_scan[k].query_result_chan]
                              = <<[answer |-> a, addr |-> src]>>]_vars

\* C15: when parsing of a datagram fails, in a question or in an answer
\* header, the loop stays running and the processing of that datagram has
\* changed no state: run() has removed no entry from the registry.  (A
\* failure in the header leaves start() at its select without run() being
\* called.)  Stated where run() returns on a parse failure.
C15_ParseFailureChangesNothing ==
    (lpc = "run_end" /\ dg.outcome = "failed") =>
        /\ loop_result = "running"
        /\ dg.removed = 0

\* C16: closing does not end an in-flight query(): once a close() has
\* returned success, a query() that is awaiting an answer stays awaiting,
\* its tick branch still re-sends the question, and it leaves the await only
\* by its own cancellation signal, with the connection-closed error, or by a
\* delivery, with the delivered result.
C16_CloseLeavesQueriesAwaiting ==
    [][\A c \in Calls :
          (call[c].op = "query" /\ call[c].pc = "select" /\ hist'.close_ok) =>
              /\ questions_sent[c] < 1 + MaxTicks => ENABLED QueryTick(c)
              /\ \/ call'[c] = call[c]
                 \/ /\ close_query_signal[c]
                    /\ hist'.cancelled[c]
                    /\ call'[c] = Returned(c, "ErrConnectionClosed", <<>>)
                 \/ /\ query_rx[c].buf # <<>>
                    /\ call'[c] = Returned(c, "Ok", Head(query_rx[c].buf))]_vars

\* a query() that began before any close() had returned is still awaiting,
\* with its tick branch ready to re-send the question, after close() returned
\* success and the background loop ended
C16_Witness ==
    \E c \in Calls :
        /\ call[c].op = "query"
        /\ call[c].pc = "select"
        /\ ~hist.after_close_ok[c]
        /\ hist.close_ok
        /\ is_server_closed
        /\ lpc = "ended"
        /\ questions_sent[c] = 1
        /\ ENABLED QueryTick(c)

\* the background loop has taken the close signal or has returned
LoopClosed == lpc \in {"store", "return", "ended"}

\* C18: the loop's closed state is terminal: once the loop has taken the
\* close signal, or has ended on a receive failure, it stays closed, no
\* further datagram is received, no answer is transmitted, no entry is
\* removed from the registry and no query is delivered a result.
C18_ClosedIsTerminal ==
    [][LoopClosed =>
          /\ LoopClosed'
          /\ lpc = "ended" => (lpc' = "ended" /\ loop_result' = loop_result)
          /\ received' = received
          /\ answers_sent' = answers_sent
          /\ Len(queries') >= Len(queries)
          /\ hist'.delivered = hist.delivered
          /\ \A c \in Calls :
                query_rx'[c].buf # query_rx[c].buf => query_rx'[c].buf = <<>>]_vars

\* the loop has ended on the close signal with a datagram still to come and
\* a registered query awaiting, which has re-sent its question
C18_Witness ==
    /\ lpc = "ended"
    /\ loop_result = "Ok"
    /\ received < MaxDatagrams
    /\ \E k \in 1..Len(queries) :
          /\ Awaiting(queries[k])
          /\ questions_sent[queries[k].query_result_chan] > 1

(***************************************************************************)
(* Properties of the connection engine, checked under FairSpec             *)
(***************************************************************************)
\* query() c awaits an answer, not cancelled, and run() has read an A or
\* AAAA record and scans a registry that holds c's entry under the record's
\* name
AwaitedRecordRead(c) ==
    /\ call[c].op = "query"
    /\ call[c].pc \in {"send", "select"}
    /\ ~close_query_signal[c]
    /\ lpc = "scan"
    /\ a.typ \in {"A", "AAAA"}
    /\ \E k \in 1..j :
          /\ queries[k].query_result_chan = c
          /\ queries[k].name_with_suffix = a.name
          /\ queries[k].name_with_suffix = call[c].name_with_suffix

\* query() c has returned success with the result run() sent it
ReturnedRecord(c) ==
    /\ call[c].pc = "done"
    /\ call[c].result = "Ok"
    /\ hist.delivered[c] # <<>>
    /\ call[c].value = Head(hist.delivered[c])

\* what run() sends to an entry is the header of the record it scans for,
\* which carries the entry's name, and the source address of the datagram
DeliveriesCarryTheRecord ==
    [][\A c \in Calls :
          hist'.delivered[c] # hist.delivered[c] =>
              /\ lpc = "scan"
              /\ a.name = call[c].name_with_suffix
              /\ src \in Addrs
              /\ hist'.delivered[c] = <<[answer |-> a, addr |-> src]>>]_vars

C19_FlagSetAfterClose ==
    /\ ~is_server_closed
    /\ [][/\ is_server_closed => is_server_closed'
          /\ is_server_closed' # is_server_closed => lpc = "store"]_vars
    /\ hist.close_ok ~> (is_server_closed /\ lpc = "ended")

(***************************************************************************)
(* Properties of the connection engine, checked under QuerySpec            *)
(***************************************************************************)
\* run() is at the send of line 355 and the send can complete at once: the
\* receiver is dropped, or the channel has room
SendReady ==
    RunAtSend =>
        LET c == queries[j].query_result_chan IN
        \/ query_rx[c].rx = "dropped"
        \/ Len(query_rx[c].buf) < ResultChanCap

\* C20: every registry entry is delivered to at most once, so no result
\* channel ever holds more than one result; the send run() performs with the
\* registry lock held therefore never waits; and a query() that waits for
\* the lock to register itself always gets to register: no query() stays
\* at its registration for ever.
C20_SendNeverBlocksRegistration ==
    /\ [](\A c \in Calls :
            /\ Len(hist.delivered[c]) <= 1
            /\ Len(query_rx[c].buf) <= 1)
    /\ []SendReady
    /\ \A c \in Calls :
          []<>(call[c].pc # "register")

\* a query() waits to register while run() holds the lock and is about to
\* deliver to the entry of another query, which it then does
C20_Witness ==
    \E c, d \in Calls :
        /\ c # d
        /\ call[c].pc = "register"
        /\ queries_lock = "run"
        /\ lpc = "scan"
        /\ hist.delivered[d] # <<>>
        /\ query_rx[d].buf # <<>>

(***************************************************************************)
(* The primitive codec (message/packer.rs).  A buffer is a sequence of     *)
(* bytes; Rust's index i is index i + 1 here.  A String is the sequence of *)
(* its UTF-8 bytes.  A result is Ok with the value, the new offset and the *)
(* indices read, an Err with the error's name, or a panic.                 *)
(*                                                                         *)
(* usize is modelled UsizeBits wide (16 bits is the narrowest usize Rust   *)
(* has).  An addition that overflows panics in a build with overflow       *)
(* checks and wraps in one without: checks tells the two builds apart.     *)
(***************************************************************************)
UsizeBits == 16
\* longest buffer handed to a decoder
MaxMsgLen == 4
\* longest destination field handed to unpack_bytes
MaxFieldLen == 2
\* longest string handed to pack_str
MaxStrLen == 257

UINT16LEN == 2
UINT32LEN == 4

UsizeModulus == 2 ^ UsizeBits
UsizeMax == UsizeModulus - 1

PkOk(value, off, reads) ==
    [kind |-> "Ok", value |-> value, off |-> off, reads |-> reads]
PkErr(err) == [kind |-> "Err", err |-> err]
PkPanic == [kind |-> "Panic"]

\* off + n in usize: "panic" is -1
UsizeAdd(x, y, checks) ==
    IF x + y > UsizeMax
    THEN IF checks THEN 0 - 1 ELSE (x + y) % UsizeModulus
    ELSE x + y

\* the bitwise or of two naturals
RECURSIVE BitOr(_, _)
BitOr(x, y) ==
    IF x = 0 THEN y
    ELSE IF y = 0 THEN x
    ELSE (IF x % 2 = 1 \/ y % 2 = 1 THEN 1 ELSE 0)
         + 2 * BitOr(x \div 2, y \div 2)

\* x << k in a type w bits wide
Shl(x, k, w) == (x * (2 ^ k)) % (2 ^ w)

\* pack_bytes, lines 7-10
PackBytes(msg, field) == msg \o field

\* unpack_bytes, lines 12-19, for a field of n bytes
UnpackBytes(msg, off, n, checks) ==
    LET new_off == UsizeAdd(off, n, checks) IN
    IF new_off < 0 THEN PkPanic
    ELSE IF new_off > Len(msg) THEN PkErr("ErrBaseLen")
    ELSE IF off > new_off THEN PkPanic
    ELSE PkOk(SubSeq(msg, off + 1, new_off), new_off, off..(new_off - 1))

\* a pack_uint16 that writes the low byte first (u16::to_le_bytes)
PackUint16LittleEndian(msg, field) ==
    msg \o <<field % 256, field \div 256>>

\* u16::to_be_bytes and pack_uint16, lines 22-25
PackUint16(msg, field) ==
    msg \o <<field \div 256, field % 256>>

\* unpack_uint16, lines 27-36
UnpackUint16(msg, off, checks) ==
    LET end == UsizeAdd(off, UINT16LEN, checks) IN
    IF end < 0 THEN PkPanic
    ELSE IF end > Len(msg) THEN PkErr("ErrBaseLen")
    ELSE IF off >= Len(msg) \/ off + 1 >= Len(msg) THEN PkPanic
    ELSE PkOk(BitOr(Shl(msg[off + 1], 8, 16), msg[off + 2]), end,
              {off, off + 1})

\* skip_uint16, lines 38-43
SkipUint16(msg, off, checks) ==
    LET end == UsizeAdd(off, UINT16LEN, checks) IN
    IF end < 0 THEN PkPanic
    ELSE IF end > Len(msg) THEN PkErr("ErrBaseLen")
    ELSE PkOk(<<>>, end, {})

\* u32::to_be_bytes and pack_uint32, lines 46-49.  A u32 is held as its two
\* 16-bit halves, hi and lo.
PackUint32(msg, field) ==
    msg \o <<field.hi \div 256, field.hi % 256,
             field.lo \div 256, field.lo % 256>>

\* unpack_uint32, lines 51-60: bytes 0 and 1 make up the high half of
\* b0 << 24 | b1 << 16 | b2 << 8 | b3, bytes 2 and 3 the low half
UnpackUint32(msg, off, checks) ==
    LET end == UsizeAdd(off, UINT32LEN, checks) IN
    IF end < 0 THEN PkPanic
    ELSE IF end > Len(msg) THEN PkErr("ErrBaseLen")
    ELSE IF \E k \in 0..3 : off + k >= Len(msg) THEN PkPanic
    ELSE PkOk([hi |-> BitOr(Shl(msg[off + 1], 8, 16), msg[off + 2]),
               lo |-> BitOr(Shl(msg[off + 3], 8, 16), msg[off + 4])],
              end, off..(off + 3))

\* skip_uint32, lines 62-67
SkipUint32(msg, off, checks) ==
    LET end == UsizeAdd(off, UINT32LEN, checks) IN
    IF end < 0 THEN PkPanic
    ELSE IF end > Len(msg) THEN PkErr("ErrBaseLen")
    ELSE PkOk(<<>>, end, {})

\* a pack_str without the length test of line 72
PackStrUnchecked(msg, field) ==
    PkOk(msg \o <<Len(field) % 256>> \o field, Len(msg) + 1 + Len(field), {})

\* pack_str, lines 70-78; l as u8 keeps the low 8 bits
PackStr(msg, field) ==
    LET l == Len(field) IN
    IF l > 255 THEN PkErr("ErrStringTooLong")
    ELSE PkOk(msg \o <<l % 256>> \o field, Len(msg) + 1 + l, {})

IsCont(b) == b >= 128 /\ b <= 191

\* the length of the character a byte starts, 0 when it starts none
Utf8Width(b) ==
    IF b < 128 THEN 1
    ELSE IF b >= 194 /\ b <= 223 THEN 2
    ELSE IF b >= 224 /\ b <= 239 THEN 3
    ELSE IF b >= 240 /\ b <= 244 THEN 4
    ELSE 0

\* the values allowed for the byte that follows lead byte b
Utf8Second(b) ==
    IF b = 224 THEN 160..191
    ELSE IF b = 237 THEN 128..159
    ELSE IF b = 240 THEN 144..191
    ELSE IF b = 244 THEN 128..143
    ELSE 128..191

\* String::from_utf8, line 91: whether the bytes are well-formed UTF-8.
\* Every byte that is no continuation byte starts a complete character, and
\* every continuation byte lies inside the character of a lead byte before it.
Utf8Valid(bytes) ==
    LET n == Len(bytes)
    IN \A i \in 1..n :
          IF IsCont(bytes[i])
          THEN \E k \in 1..3 :
                  /\ i - k >= 1
                  /\ Utf8Width(bytes[i - k]) > k
                  /\ \A m \in (i - k + 1)..(i - 1) : IsCont(bytes[m])
          ELSE /\ Utf8Width(bytes[i]) > 0
               /\ i + Utf8Width(bytes[i]) - 1 <= n
               /\ Utf8Width(bytes[i]) >= 2 => bytes[i + 1] \in Utf8Second(bytes[i])
               /\ \A m \in (i + 2)..(i + Utf8Width(bytes[i]) - 1) : IsCont(bytes[m])

\* unpack_str, lines 80-94.  begin_off + msg[off] cannot overflow: a slice is
\* at most isize::MAX long.
UnpackStr(msg, off) ==
    IF off >= Len(msg) THEN PkErr("ErrBaseLen")
    ELSE LET begin_off == off + 1
             end_off == begin_off + msg[off + 1]
         IN IF end_off > Len(msg) THEN PkErr("ErrCalcLen")
            ELSE IF Utf8Valid(SubSeq(msg, begin_off + 1, end_off))
            THEN PkOk(SubSeq(msg, begin_off + 1, end_off), end_off,
                      off..(end_off - 1))
            ELSE PkErr("FromUtf8Error")

(***************************************************************************)
(* The codec's specification: one function applied to one input; a pack    *)
(* function is followed by the unpack function on the buffer it returned,  *)
(* at the offset where packing started.                                    *)
(***************************************************************************)
ByteSamples == {0, 2, 65, 255}
SeqsUpTo(S, n) == UNION {[1..k -> S] : k \in 0..n}
Msgs == SeqsUpTo(ByteSamples, MaxMsgLen)
Offs == (0..(MaxMsgLen + 1)) \cup ((UsizeMax - UINT32LEN + 1)..UsizeMax)
Prefixes == {<<>>, <<7>>, <<255, 0, 1>>}
U16Samples == {0, 1, 255, 256, 258, 4660, 32768, 43981, 65535}
\* strings of n one-byte characters and of k two-byte characters
AsciiString(n) == [i \in 1..n |-> 97]
TwoByteString(k) == [i \in 1..(2 * k) |-> IF i % 2 = 1 THEN 195 ELSE 169]
Strings == {AsciiString(n) : n \in 0..MaxStrLen} \cup
           {TwoByteString(k) : k \in 0..(MaxStrLen \div 2)}

DecodeInputs ==
    [kind : {"decode"}, msg : Msgs, off : Offs, n : 0..MaxFieldLen,
     checks : BOOLEAN]
PackUint16Inputs == [kind : {"uint16"}, msg : Prefixes, field : U16Samples]
PackUint32Inputs ==
    [kind : {"uint32"}, msg : Prefixes,
     field : [hi : U16Samples, lo : U16Samples]]
PackStrInputs == [kind : {"str"}, msg : Prefixes, field : Strings]

PkInput(in) == [op |-> "input", in |-> in, out |-> <<>>, back |-> <<>>]
PkApplied(op, out) == [pk EXCEPT !.op = op, !.out = out]
PkBack(op, back) == [pk EXCEPT !.op = op, !.back = back]

PackerInit ==
    /\ ConnInit
    /\ setup = Constructed
    /\ \E in \in DecodeInputs \cup PackUint16Inputs \cup PackUint32Inputs
                 \cup PackStrInputs : pk = PkInput(in)

Decoding == pk.op = "input" /\ pk.in.kind = "decode"

DoUnpackBytes ==
    /\ Decoding
    /\ pk' = PkApplied("unpack_bytes",
                       UnpackBytes(pk.in.msg, pk.in.off, pk.in.n, pk.in.checks))

DoUnpackUint16 ==
    /\ Decoding
    /\ pk' = PkApplied("unpack_uint16",
                       UnpackUint16(pk.in.msg, pk.in.off, pk.in.checks))

DoSkipUint16 ==
    /\ Decoding
    /\ pk' = PkApplied("skip_uint16",
                       SkipUint16(pk.in.msg, pk.in.off, pk.in.checks))

DoUnpackUint32 ==
    /\ Decoding
    /\ pk' = PkApplied("unpack_uint32",
                       UnpackUint32(pk.in.msg, pk.in.off, pk.in.checks))

DoSkipUint32 ==
    /\ Decoding
    /\ pk' = PkApplied("skip_uint32",
                       SkipUint32(pk.in.msg, pk.in.off, pk.in.checks))

DoUnpackStr ==
    /\ Decoding
    /\ pk' = PkApplied("unpack_str", UnpackStr(pk.in.msg, pk.in.off))

DoPackUint16 ==
    /\ pk.op = "input" /\ pk.in.kind = "uint16"
    /\ pk' = PkApplied("pack_uint16", PackUint16(pk.in.msg, pk.in.field))

DoUnpackPackedUint16 ==
    /\ pk.op = "pack_uint16"
    /\ \E checks \in BOOLEAN :
          pk' = PkBack("pack_unpack_uint16",
                       UnpackUint16(pk.out, Len(pk.in.msg), checks))

DoPackUint32 ==
    /\ pk.op = "input" /\ pk.in.kind = "uint32"
    /\ pk' = PkApplied("pack_uint32", PackUint32(pk.in.msg, pk.in.field))

DoUnpackPackedUint32 ==
    /\ pk.op = "pack_uint32"
    /\ \E checks \in BOOLEAN :
          pk' = PkBack("pack_unpack_uint32",
                       UnpackUint32(pk.out, Len(pk.in.msg), checks))

DoPackStr ==
    /\ pk.op = "input" /\ pk.in.kind = "str"
    /\ pk' = PkApplied("pack_str", PackStr(pk.in.msg, pk.in.field))

DoUnpackPackedStr ==
    /\ pk.op = "pack_str"
    /\ pk.out.kind = "Ok"
    /\ pk' = PkBack("pack_unpack_str", UnpackStr(pk.out.value, Len(pk.in.msg)))

PackerNext ==
    \/ DoUnpackBytes /\ UNCHANGED <<connVars, setup>>
    \/ DoUnpackUint16 /\ UNCHANGED <<connVars, setup>>
    \/ DoSkipUint16 /\ UNCHANGED <<connVars, setup>>
    \/ DoUnpackUint32 /\ UNCHANGED <<connVars, setup>>
    \/ DoSkipUint32 /\ UNCHANGED <<connVars, setup>>
    \/ DoUnpackStr /\ UNCHANGED <<connVars, setup>>
    \/ DoPackUint16 /\ UNCHANGED <<connVars, setup>>
    \/ DoUnpackPackedUint16 /\ UNCHANGED <<connVars, setup>>
    \/ DoPackUint32 /\ UNCHANGED <<connVars, setup>>
    \/ DoUnpackPackedUint32 /\ UNCHANGED <<connVars, setup>>
    \/ DoPackStr /\ UNCHANGED <<connVars, setup>>
    \/ DoUnpackPackedStr /\ UNCHANGED <<connVars, setup>>

PackerSpec == PackerInit /\ [][PackerNext]_vars

(***************************************************************************)
(* Properties of the codec, checked under PackerSpec                       *)
(***************************************************************************)
DecoderOps ==
    {"unpack_bytes", "unpack_uint16", "skip_uint16", "unpack_uint32",
     "skip_uint32", "unpack_str"}
LengthErrors == {"ErrBaseLen", "ErrCalcLen"}

\* the number of bytes the decoder that ran would read from pk.in.off on
FieldWidth ==
    CASE pk.op = "unpack_bytes" -> pk.in.n
      [] pk.op \in {"unpack_uint16", "skip_uint16"} -> 2
      [] pk.op \in {"unpack_uint32", "skip_uint32"} -> 4
      [] pk.op = "unpack_str" ->
            IF pk.in.off < Len(pk.in.msg)
            THEN 1 + pk.in.msg[pk.in.off + 1] ELSE 1

\* C8: every primitive decoder returns a length error whenever the field it
\* would read extends past the end of msg, and on success reads only indices
\* below msg.len() and returns a new offset of at most msg.len().
C8_DecodersBoundsSafe ==
    pk.op \in DecoderOps =>
        /\ pk.in.off + FieldWidth > Len(pk.in.msg) =>
              pk.out.kind = "Err" /\ pk.out.err \in LengthErrors
        /\ pk.out.kind = "Ok" =>
              /\ \A i \in pk.out.reads : i < Len(pk.in.msg)
              /\ pk.out.off <= Len(pk.in.msg)

\* C9: pack_uint16 appends exactly 2 bytes and pack_uint32 exactly 4, most
\* significant byte first, leaving the prefix unchanged; unpack_uint16 and
\* unpack_uint32 at offset len(b) of the result return the packed value and
\* the offset len(b) + 2, respectively len(b) + 4.
C9_IntegersRoundTripBigEndian ==
    LET b == pk.in.msg
        n == Len(pk.in.msg)
    IN /\ pk.op \in {"pack_uint16", "pack_unpack_uint16"} =>
              /\ Len(pk.out) = n + 2
              /\ SubSeq(pk.out, 1, n) = b
              /\ \A i \in 1..2 : pk.out[n + i] \in 0..255
              /\ pk.out[n + 1] * 256 + pk.out[n + 2] = pk.in.field
       /\ pk.op = "pack_unpack_uint16" =>
              /\ pk.back.kind = "Ok"
              /\ pk.back.value = pk.in.field
              /\ pk.back.off = n + 2
       /\ pk.op \in {"pack_uint32", "pack_unpack_uint32"} =>
              /\ Len(pk.out) = n + 4
              /\ SubSeq(pk.out, 1, n) = b
              /\ \A i \in 1..4 : pk.out[n + i] \in 0..255
              /\ pk.out[n + 1] * 256 + pk.out[n + 2] = pk.in.field.hi
              /\ pk.out[n + 3] * 256 + pk.out[n + 4] = pk.in.field.lo
       /\ pk.op = "pack_unpack_uint32" =>
              /\ pk.back.kind = "Ok"
              /\ pk.back.value = pk.in.field
              /\ pk.back.off = n + 4

\* 0x1234ABCD packed behind a non-empty prefix and unpacked again
C9_Witness ==
    /\ pk.op = "pack_unpack_uint32"
    /\ pk.in.msg = <<255, 0, 1>>
    /\ pk.in.field = [hi |-> 4660, lo |-> 43981]
    /\ pk.out = <<255, 0, 1, 18, 52, 171, 205>>
    /\ pk.back.kind = "Ok"

\* C10: pack_str fails with the string-too-long error exactly when the field
\* is longer than 255 bytes; otherwise it appends one length byte equal to the
\* field's byte length and then the field's bytes, and unpack_str at the offset
\* where packing started returns the original string and the offset just past
\* the appended bytes.
C10_StringsRoundTrip ==
    LET n == Len(pk.in.msg)
        l == Len(pk.in.field)
    IN /\ pk.op \in {"pack_str", "pack_unpack_str"} =>
              /\ pk.out.kind \in {"Ok", "Err"}
              /\ pk.out.kind = "Err" <=> l > 255
              /\ pk.out.kind = "Err" => pk.out.err = "ErrStringTooLong"
              /\ pk.out.kind = "Ok" =>
                    pk.out.value = pk.in.msg \o <<l>> \o pk.in.field
       /\ pk.op = "pack_unpack_str" =>
              /\ pk.back.kind = "Ok"
              /\ pk.back.value = pk.in.field
              /\ pk.back.off = n + 1 + l

\* the longest string that packs, round-tripped behind a non-empty prefix
C10_Witness ==
    /\ pk.op = "pack_unpack_str"
    /\ Len(pk.in.field) = 255
    /\ pk.in.msg # <<>>
    /\ pk.back.kind = "Ok"
    /\ pk.back.value = pk.in.field

(***************************************************************************)
(* Construction: DNSConn::server, lines 52-140.  The interfaces are those  *)
(* ifaces::ifaces() returns; each is one whose address is an IPv4 address  *)
(* on which the join succeeds ("V4Joins") or fails ("V4Fails"), or one     *)
(* whose address is absent or is not IPv4 ("NotV4").  joined counts the    *)
(* interfaces on which join_multicast_v4 returned Ok.                      *)
(***************************************************************************)
\* most interfaces ifaces() returns
MaxInterfaces == 4

InterfaceKinds == {"V4Joins", "V4Fails", "NotV4"}

InterfaceLists ==
    UNION {[1..n -> InterfaceKinds] : n \in 0..MaxInterfaces}

SetupInit ==
    /\ ConnInit
    /\ pk = PkIdle
    /\ setup = [pc |-> "ifaces", interfaces |-> <<>>, i |-> 1,
                join_error_count |-> 0, joined |-> 0, result |-> "none"]

\* lines 70-76: ifaces::ifaces(), an error of which is returned
ServerIfaces ==
    /\ setup.pc = "ifaces"
    /\ \/ setup' = [setup EXCEPT !.pc = "done", !.result = "ErrInterfaces"]
       \/ \E e \in InterfaceLists :
             setup' = [setup EXCEPT !.pc = "join", !.interfaces = e]

\* lines 78-89: one turn of the loop over the interfaces
ServerJoin ==
    /\ setup.pc = "join"
    /\ IF setup.i > Len(setup.interfaces)
       THEN setup' = [setup EXCEPT !.pc = "check"]
       ELSE LET interface == setup.interfaces[setup.i] IN
            setup' = [setup EXCEPT
                !.i = @ + 1,
                !.join_error_count =
                    IF interface = "V4Fails" THEN @ + 1 ELSE @,
                !.joined = IF interface = "V4Joins" THEN @ + 1 ELSE @]

\* lines 91-93, and the rest of the setup when the check passes
ServerCheck ==
    /\ setup.pc = "check"
    /\ setup' = [setup EXCEPT
            !.pc = "done",
            !.result = IF setup.join_error_count >= Len(setup.interfaces)
                       THEN "ErrJoiningMulticastGroup"
                       ELSE "Ok"]

SetupNext ==
    \/ ServerIfaces /\ UNCHANGED <<connVars, pk>>
    \/ ServerJoin /\ UNCHANGED <<connVars, pk>>
    \/ ServerCheck /\ UNCHANGED <<connVars, pk>>

SetupSpec == SetupInit /\ [][SetupNext]_vars

(***************************************************************************)
(* Properties of the construction, checked under SetupSpec                 *)
(***************************************************************************)
\* C17: for every list of interfaces and every outcome of the joins,
\* server() fails with the multicast-join error if and only if the group was
\* joined on no interface; a join that succeeds on one interface makes the
\* setup proceed whatever the other joins did.
C17_JoinErrorIffNoJoin ==
    (setup.pc = "done" /\ setup.result # "ErrInterfaces") =>
        (setup.result = "ErrJoiningMulticastGroup" <=> setup.joined = 0)

====
